---- MODULE Spec2Model ----
(***************************************************************************)
(* The state facade of cristianvogel/state-facade-patterns.                *)
(*                                                                         *)
(* Three implementations of the pattern live in the repository:           *)
(*   "A"  reactiveState with snapshot, Object.assign   (unnamed/part_000)  *)
(*   "B"  reactiveState with subscribe, reassignment   (unnamed/part_001)  *)
(*   "C"  class FrontEndStateService          (state-facade.svelte.ts)     *)
(* A behaviour constructs one facade (Init) and then applies the           *)
(* operations of that implementation.  Objects live in a heap so that      *)
(* references (current, nested objects, snapshots) keep their identity.    *)
(***************************************************************************)
EXTENDS Integers, Sequences, FiniteSets, TLC

\* ---- bounds -------------------------------------------------------------
MaxVal == 2          \* primitive field values are 0..MaxVal
MaxHeap == 9         \* objects ever allocated in one behaviour
MaxOps == 2          \* operations applied after construction

\* ---- values -------------------------------------------------------------
\* A JavaScript value: a primitive, a reference to a heap object, undefined,
\* a facade operation, or a member inherited from Object.prototype.
Val(k, n) == [k |-> k, n |-> n]
Prim(n) == Val("prim", n)
Obj(id) == Val("obj", id)
Undef == Val("undef", 0)
ProtoFn == Val("proto", 0)

Prims == 0..MaxVal

\* The names used as property keys.
FieldNames == {"counter", "user", "extra", "current", "toString"}
NestedKey == "name"

\* Names every object inherits from Object.prototype (those among FieldNames).
ObjectProto == {"toString"}

\* ---- objects: ordered lists of own properties ---------------------------
Entry(key, v) == [key |-> key, val |-> v]

Keys(c) == [i \in 1..Len(c) |-> c[i].key]

KeySet(c) == {c[i].key : i \in 1..Len(c)}

HasOwn(c, name) == name \in KeySet(c)

IndexOf(c, name) == CHOOSE i \in 1..Len(c) : c[i].key = name

OwnVal(c, name) == c[IndexOf(c, name)].val

\* obj[name] = v on a plain object: an existing key keeps its position, a
\* new key goes last.
Put(c, name, v) ==
    IF HasOwn(c, name)
      THEN [c EXCEPT ![IndexOf(c, name)] = Entry(name, v)]
      ELSE Append(c, Entry(name, v))

\* obj[name]: own property, else the prototype chain, else undefined.
ReadProp(c, name) ==
    IF HasOwn(c, name) THEN OwnVal(c, name)
    ELSE IF name \in ObjectProto THEN ProtoFn
    ELSE Undef

\* name in obj
InObj(c, name) == HasOwn(c, name) \/ name \in ObjectProto

\* ---- the heap -----------------------------------------------------------
\* heap[id] is the object with identity id; a cell no reference reaches is
\* Free and its identity is given to the next object created.
Free == <<>>

Alloc(h) ==
    IF \E i \in 1..Len(h) : h[i] = Free
      THEN CHOOSE i \in 1..Len(h) : h[i] = Free /\ \A j \in 1..(i - 1) : h[j] # Free
      ELSE Len(h) + 1

\* A new object c: the grown heap and the new identity.
New(h, c) ==
    LET id == Alloc(h)
    IN [h |-> IF id <= Len(h) THEN [h EXCEPT ![id] = c] ELSE Append(h, c),
        id |-> id]

Refs(c) == {c[i].val.n : i \in {j \in 1..Len(c) : c[j].val.k = "obj"}}

RECURSIVE Trim(_)
Trim(h) == IF Len(h) > 0 /\ h[Len(h)] = Free THEN Trim(SubSeq(h, 1, Len(h) - 1)) ELSE h

\* Garbage collection: keep what the roots reach (records and the objects
\* nested in them).
Sweep(h, roots) ==
    LET r0 == roots \cap (1..Len(h))
        r1 == r0 \cup UNION {Refs(h[i]) : i \in r0}
        r2 == r1 \cup UNION {Refs(h[i]) : i \in r1}
    IN Trim([i \in 1..Len(h) |-> IF i \in r2 THEN h[i] ELSE Free])

\* A deep copy of object c (structuredClone, $state.snapshot): every object
\* it refers to is copied into a fresh heap cell.  Returns the grown heap
\* and the copy.
RECURSIVE DeepCopyFrom(_, _, _)
DeepCopyFrom(h, c, i) ==
    IF i > Len(c) THEN [h |-> h, c |-> c]
    ELSE IF c[i].val.k = "obj"
      THEN LET inner == DeepCopyFrom(h, h[c[i].val.n], 1)
               n == New(inner.h, inner.c)
           IN DeepCopyFrom(n.h, [c EXCEPT ![i].val = Obj(n.id)], i + 1)
      ELSE DeepCopyFrom(h, c, i + 1)

DeepCopy(h, c) == DeepCopyFrom(h, c, 1)

\* The contents of object c with every reference replaced by the contents
\* of the object it names: what toEqual / JSON.stringify observe.
RECURSIVE DeepView(_, _)
DeepView(h, c) ==
    [i \in 1..Len(c) |->
        IF c[i].val.k = "obj"
          THEN [key |-> c[i].key, val |-> Val("objv", 0),
                sub |-> DeepView(h, h[c[i].val.n])]
          ELSE [key |-> c[i].key, val |-> c[i].val, sub |-> <<>>]]

\* ---- the three facades --------------------------------------------------
Impls == {"A", "B", "C"}

\* Own keys of the api object, in declaration order.
ApiA == <<"current", "snapshot", "update", "reset">>
ApiB == <<"current", "update", "reset", "subscribe">>
\* Members of FrontEndStateService.prototype: two getters and a method.
ProtoGettersC == {"current", "snapshot"}
ProtoMethodsC == {"incrementCounter", "createAccessors", "constructor"}

SeqSet(s) == {s[i] : i \in 1..Len(s)}

OpNames == SeqSet(ApiA) \cup SeqSet(ApiB) \cup ProtoGettersC \cup ProtoMethodsC

\* A facade operation as a value.
OpVal(name) == [k |-> "op:" \o name, n |-> 0]

VARIABLES
    impl,          \* which implementation was constructed
    writeThrough,  \* host container: do proxy writes reach the wrapped object
    heap,          \* heap[id]: the own properties of object id
    state,         \* id of the backing record (`state`, `_state`)
    initial,       \* id of the object passed to the constructor
    startValue,    \* "A": id of structuredClone(initial); 0 otherwise
    accessors,     \* "C": keys given a getter/setter by createAccessors
    inst,          \* "C": own data properties assigned on the instance
    held,          \* a reference obtained from `current` (0: none)
    snap,          \* a value returned by `snapshot` (0: none)
    snapAt,        \* what that snapshot held when it was returned
    subscribed,    \* "B": subscribe(callback) has been called
    pending,       \* the $effect: "idle", or scheduled for its "first" run
                   \* or by a "change" of `state`
    bypassed,      \* a write has gone past the facade's set/update/reset
    initView,      \* the contents of the constructor's argument
    last,          \* the last operation and its result
    nops           \* operations applied so far

\* What construction fixes.
fixed == <<impl, initView, writeThrough, initial, startValue, accessors>>

vars == <<impl, writeThrough, heap, state, initial, startValue, accessors,
          inst, held, snap, snapAt, subscribed, pending, bypassed, initView,
          last, nops>>

\* ---- construction -------------------------------------------------------
\* The records a facade is constructed from: without and with a field whose
\* name is an operation name.
InitialShapes ==
    { <<Entry("counter", Prim(0)), Entry("user", Obj(1))>>,
      <<Entry("current", Prim(1)), Entry("counter", Prim(0)),
        Entry("user", Obj(1))>> }

NoOp == [op |-> "new", key |-> "", val |-> Undef, ok |-> TRUE, warn |-> FALSE]

\* $state(x): the reactive proxy of x.  A host whose proxies write through
\* shares x's storage; otherwise the proxy keeps its own values.
Wrapped(h, id, wt) ==
    IF wt THEN [h |-> h, id |-> id]
    ELSE LET d == DeepCopy(h, h[id])
         IN New(d.h, d.c)

Init ==
    /\ impl \in Impls
    \* only part_001 reads `initial` again after construction
    /\ writeThrough \in (IF impl = "B" THEN BOOLEAN ELSE {FALSE})
    /\ \E shape \in InitialShapes :
         LET h0 == << <<Entry(NestedKey, Prim(0))>>, shape >>
             d  == DeepCopy(h0, h0[2])
             sv == IF impl = "A" THEN New(d.h, d.c) ELSE [h |-> h0, id |-> 0]
             w  == Wrapped(sv.h, 2, writeThrough)
         IN /\ initial = 2
            /\ startValue = sv.id
            /\ heap = w.h
            /\ state = w.id
            /\ accessors = IF impl = "C" THEN KeySet(w.h[w.id]) ELSE {}
            /\ initView = DeepView(h0, shape)
    /\ inst = <<>>
    /\ held = 0
    /\ snap = 0
    /\ snapAt = <<>>
    /\ subscribed = FALSE
    /\ pending = "idle"
    /\ bypassed = FALSE
    /\ last = NoOp
    /\ nops = 0

\* ---- reads through the facade -------------------------------------------
\* Proxy get trap / property read on the class instance.
GetA(h, st, name) ==
    IF name \in SeqSet(ApiA) THEN OpVal(name) ELSE ReadProp(h[st], name)

\* prop in target: the api object's own keys and what it inherits.
InTargetB(name) == name \in SeqSet(ApiB) \/ name \in ObjectProto

GetB(h, st, name) ==
    IF InTargetB(name)
      THEN (IF name \in SeqSet(ApiB) THEN OpVal(name) ELSE ProtoFn)
      ELSE ReadProp(h[st], name)

GetC(h, st, acc, own, name) ==
    IF name \in acc THEN ReadProp(h[st], name)
    ELSE IF HasOwn(own, name) THEN OwnVal(own, name)
    ELSE IF name \in ProtoGettersC \cup ProtoMethodsC THEN OpVal(name)
    ELSE IF name \in ObjectProto THEN ProtoFn
    ELSE Undef

Get(name) ==
    CASE impl = "A" -> GetA(heap, state, name)
      [] impl = "B" -> GetB(heap, state, name)
      [] OTHER -> GetC(heap, state, accessors, inst, name)

\* Proxy has trap / `name in facade`.
HasA(h, st, name) == name \in SeqSet(ApiA) \/ InObj(h[st], name)

HasB(h, st, name) == InTargetB(name) \/ InObj(h[st], name)

HasC(acc, own, name) ==
    \/ name \in acc
    \/ HasOwn(own, name)
    \/ name \in ProtoGettersC \cup ProtoMethodsC
    \/ name \in ObjectProto

Has(name) ==
    CASE impl = "A" -> HasA(heap, state, name)
      [] impl = "B" -> HasB(heap, state, name)
      [] OTHER -> HasC(accessors, inst, name)

\* Proxy ownKeys trap.
OwnKeysA(h, st) == ApiA \o Keys(h[st])

OwnKeysB(h, st) == ApiB \o Keys(h[st])

\* The reserved operation names of the constructed facade.
Reserved ==
    CASE impl = "A" -> SeqSet(ApiA)
      [] impl = "B" -> SeqSet(ApiB)
      [] OTHER -> {"incrementCounter", "current", "snapshot"}

\* ---- values supplied by callers -----------------------------------------
\* A caller writes a primitive or a freshly built object {name: n}.
NewPrim(n) == [k |-> "prim", n |-> n]
NewObj(n) == [k |-> "newobj", n |-> n]

\* The primitives callers write: the initial value again, and another one.
WrittenPrims == {0, MaxVal}

ValueSpecs == {NewPrim(n) : n \in WrittenPrims} \cup {NewObj(MaxVal)}

\* The caller's value as stored: a fresh object gets a heap cell.
Materialize(h, spec) ==
    IF spec.k = "newobj"
      THEN LET n == New(h, <<Entry(NestedKey, Prim(spec.n))>>)
           IN [h |-> n.h, v |-> Obj(n.id)]
      ELSE [h |-> h, v |-> Prim(spec.n)]

\* The arguments of update(): ordered lists of distinct keys; the empty one,
\* every single key with every value, and a batch of two.
PartialKeySeqs ==
    {<<>>, <<"counter">>, <<"extra">>, <<"current">>, <<"toString">>,
     <<"extra", "counter">>}

Partials ==
    {[i \in 1..Len(ks) |-> Entry(ks[i], spec)] :
        ks \in PartialKeySeqs, spec \in ValueSpecs}

\* Object.assign(target, src) / {...target, ...src}: copy src's own
\* properties onto target in src's order, materialising caller objects.
RECURSIVE AssignFrom(_, _, _, _)
AssignFrom(h, c, src, i) ==
    IF i > Len(src) THEN [h |-> h, c |-> c]
    ELSE LET m == IF src[i].val.k = "newobj"
                    THEN Materialize(h, src[i].val)
                    ELSE [h |-> h, v |-> src[i].val]
         IN AssignFrom(m.h, Put(c, src[i].key, m.v), src, i + 1)

Assign(h, c, src) == AssignFrom(h, c, src, 1)

\* ---- writes through the facade ------------------------------------------
\* The result of a write: the heap, the backing record, the instance's own
\* properties, the stored value, the reported result and the diagnostic.
Outcome(h, st, own, v, ok, warn) ==
    [h |-> h, st |-> st, own |-> own, v |-> v, ok |-> ok, warn |-> warn]

\* Fault: a set trap without the guard on the operation names.
SetUnguarded(h, st, own, name, spec) ==
    LET m == Materialize(h, spec)
    IN Outcome([m.h EXCEPT ![st] = Put(m.h[st], name, m.v)],
               st, own, m.v, TRUE, FALSE)

\* part_000 Proxy set trap.
SetA(h, st, own, name, spec) ==
    IF name \in SeqSet(ApiA)
      THEN Outcome(h, st, own, Undef, FALSE, TRUE)
      ELSE LET m == Materialize(h, spec)
           IN Outcome([m.h EXCEPT ![st] = Put(m.h[st], name, m.v)],
                      st, own, m.v, TRUE, FALSE)

\* part_001 Proxy set trap: state = { ...state, [prop]: value }.
SetB(h, st, own, name, spec) ==
    IF InTargetB(name)
      THEN Outcome(h, st, own, Undef, FALSE, FALSE)
      ELSE LET m == Materialize(h, spec)
               n == New(m.h, Put(m.h[st], name, m.v))
           IN Outcome(n.h, n.id, own, m.v, TRUE, FALSE)

\* Assignment to a property of the FrontEndStateService instance.
SetC(h, st, acc, own, name, spec) ==
    LET m == Materialize(h, spec)
    IN IF name \in acc
         THEN Outcome([m.h EXCEPT ![st] = Put(m.h[st], name, m.v)],
                      st, own, m.v, TRUE, FALSE)
       ELSE IF ~HasOwn(own, name) /\ name \in ProtoGettersC
         THEN Outcome(h, st, own, Undef, FALSE, FALSE)
       ELSE Outcome(m.h, st, Put(own, name, m.v), m.v, TRUE, FALSE)

SetTrap(name, spec) ==
    CASE impl = "A" -> SetA(heap, state, inst, name, spec)
      [] impl = "B" -> SetB(heap, state, inst, name, spec)
      [] OTHER -> SetC(heap, state, accessors, inst, name, spec)

\* Names a caller writes: fields and the operation names of the facade.
WriteNames == FieldNames \cup Reserved

\* What the program still refers to once the backing record is st, the kept
\* reference hd, the kept snapshot sn and the instance's properties own.
Live(h, st, hd, sn, own) ==
    Sweep(h, {st, hd, sn, initial, startValue} \cup Refs(own))

Did(op, key, v, ok, warn) ==
    [op |-> op, key |-> key, val |-> v, ok |-> ok, warn |-> warn]

\* Fault: a reassignment that schedules nothing.
NotifyNever(st) == pending

\* The $effect of subscribe reruns when `state` is reassigned.
Notify(st) == IF subscribed /\ st # state THEN "change" ELSE pending

\* facade[name] = value.
Set(name, spec) ==
    /\ nops < MaxOps
    /\ LET r == SetTrap(name, spec)
       IN /\ Len(r.h) <= MaxHeap
          /\ heap' = Live(r.h, r.st, held, snap, r.own)
          /\ state' = r.st
          /\ inst' = r.own
          /\ pending' = Notify(r.st)
          /\ last' = Did("set", name, r.v, r.ok, r.warn)
    /\ nops' = nops + 1
    /\ UNCHANGED <<fixed, held, snap, snapAt, subscribed, bypassed>>

\* A call facade.op(...) needs the name to resolve to the operation.
Callable(op) == Get(op) = OpVal(op)

\* part_000 update: Object.assign(state, partial).
UpdateA(h, st, partial) ==
    LET a == Assign(h, h[st], partial)
    IN [h |-> [a.h EXCEPT ![st] = a.c], st |-> st]

\* part_001 update: state = { ...state, ...partial }.
UpdateB(h, st, partial) ==
    LET a == Assign(h, h[st], partial)
        n == New(a.h, a.c)
    IN [h |-> n.h, st |-> n.id]

Update(partial) ==
    /\ impl \in {"A", "B"}
    /\ Callable("update")
    /\ nops < MaxOps
    /\ LET r == IF impl = "A" THEN UpdateA(heap, state, partial)
                ELSE UpdateB(heap, state, partial)
       IN /\ Len(r.h) <= MaxHeap
          /\ heap' = Live(r.h, r.st, held, snap, inst)
          /\ state' = r.st
          /\ pending' = Notify(r.st)
    /\ last' = Did("update", "", Prim(Len(partial)), TRUE, FALSE)
    /\ nops' = nops + 1
    /\ UNCHANGED <<fixed, inst, held, snap, snapAt, subscribed, bypassed>>

\* Fault: a reset that assigns nothing.
ResetNothing(h, st, sv) == [h |-> h, st |-> st]

\* Fault: a reset that replaces the record's contents by the clone.
ResetReplace(h, st, sv) ==
    LET d == DeepCopy(h, h[sv])
    IN [h |-> [d.h EXCEPT ![st] = d.c], st |-> st]

\* part_000 reset: Object.assign(state, structuredClone(startValue)).
ResetA(h, st, sv) ==
    LET d == DeepCopy(h, h[sv])
        a == Assign(d.h, d.h[st], d.c)
    IN [h |-> [a.h EXCEPT ![st] = a.c], st |-> st]

\* part_001 reset: state = { ...initial }.  The new record is wrapped by the
\* host: a write-through proxy shares initial's nested objects, otherwise
\* the nested proxies start again from initial's values.
ResetB(h, ini, wt) ==
    LET d == IF wt THEN [h |-> h, c |-> h[ini]] ELSE DeepCopy(h, h[ini])
        n == New(d.h, d.c)
    IN [h |-> n.h, st |-> n.id]

Reset ==
    /\ impl \in {"A", "B"}
    /\ Callable("reset")
    /\ nops < MaxOps
    /\ LET r == IF impl = "A" THEN ResetA(heap, state, startValue)
                ELSE ResetB(heap, initial, writeThrough)
       IN /\ Len(r.h) <= MaxHeap
          /\ heap' = Live(r.h, r.st, held, snap, inst)
          /\ state' = r.st
          /\ pending' = Notify(r.st)
    /\ last' = Did("reset", "", Undef, TRUE, FALSE)
    /\ nops' = nops + 1
    /\ UNCHANGED <<fixed, inst, held, snap, snapAt, subscribed, bypassed>>

\* Fault: current returns the constructor's argument, not `state`.
CurrentInitial(st) == initial

\* get current(): the reference the caller keeps.
CurrentRef(st) == st

Current ==
    /\ Callable("current")
    /\ held = 0
    /\ held' = CurrentRef(state)
    /\ last' = Did("current", "", Undef, TRUE, FALSE)
    /\ UNCHANGED <<fixed, heap, state, inst, snap, snapAt, subscribed, pending, nops, bypassed>>

\* Fault: a snapshot that copies only the top level.
SnapshotShallow(h, st) == New(h, h[st])

\* get snapshot(): $state.snapshot(state), a deep copy.
SnapshotOf(h, st) ==
    LET d == DeepCopy(h, h[st])
    IN New(d.h, d.c)

Snapshot ==
    /\ impl \in {"A", "C"}
    /\ Callable("snapshot")
    /\ snap = 0
    /\ LET r == SnapshotOf(heap, state)
       IN /\ Len(r.h) <= MaxHeap
          /\ heap' = Live(r.h, state, held, r.id, inst)
          /\ snap' = r.id
          /\ snapAt' = DeepView(heap, heap[state])
    /\ last' = Did("snapshot", "", Undef, TRUE, FALSE)
    /\ UNCHANGED <<fixed, state, inst, held, subscribed, pending, nops, bypassed>>

\* Fields written through a kept reference.
HeldKeys == {"counter"}

\* held.name = value: a write through the reference `current` returned.  The
\* subscriber's effect reruns if its callback had read that property.
WriteHeld(name, spec) ==
    /\ held # 0
    /\ nops < MaxOps
    /\ LET m == Materialize(heap, spec)
       IN /\ Len(m.h) <= MaxHeap
          /\ heap' = Live([m.h EXCEPT ![held] = Put(m.h[held], name, m.v)],
                           state, held, snap, inst)
          /\ last' = Did("writeHeld", name, m.v, TRUE, FALSE)
    /\ pending' \in {pending, IF subscribed THEN "change" ELSE pending}
    /\ bypassed' = TRUE
    /\ nops' = nops + 1
    /\ UNCHANGED <<fixed, state, inst, held, snap, snapAt, subscribed>>

\* facade.field.name = n or held.field.name = n: a write to a nested object.
SetNested(via, field, n) ==
    /\ nops < MaxOps
    /\ via = "held" => held # 0
    /\ LET base == IF via = "held" THEN ReadProp(heap[held], field)
                   ELSE Get(field)
       IN /\ base.k = "obj"
          /\ heap' = Live([heap EXCEPT ![base.n] = Put(heap[base.n], NestedKey, Prim(n))],
                           state, held, snap, inst)
    /\ last' = Did("setNested", field, Prim(n), TRUE, FALSE)
    /\ pending' \in {pending, IF subscribed THEN "change" ELSE pending}
    /\ bypassed' = TRUE
    /\ nops' = nops + 1
    /\ UNCHANGED <<fixed, state, inst, held, snap, snapAt, subscribed>>

\* FrontEndStateService.incrementCounter: this._state.counter++.
IncrementCounter ==
    /\ impl = "C"
    /\ Callable("incrementCounter")
    /\ nops < MaxOps
    /\ LET c == ReadProp(heap[state], "counter")
       IN /\ c.k = "prim"
          /\ c.n < MaxVal
          /\ heap' = Live([heap EXCEPT ![state] = Put(heap[state], "counter", Prim(c.n + 1))],
                           state, held, snap, inst)
    /\ last' = Did("incrementCounter", "counter", Undef, TRUE, FALSE)
    /\ nops' = nops + 1
    /\ UNCHANGED <<fixed, state, inst, held, snap, snapAt, subscribed, pending, bypassed>>

\* part_001 subscribe(callback): registers the effect (scheduled for its
\* first run) and returns state.
SubscribeResult(st) == Obj(st)

Subscribe ==
    /\ impl = "B"
    /\ Callable("subscribe")
    /\ ~subscribed
    /\ subscribed' = TRUE
    /\ pending' = "first"
    /\ last' = Did("subscribe", "", SubscribeResult(state), TRUE, FALSE)
    /\ UNCHANGED <<fixed, heap, state, inst, held, snap, snapAt, nops, bypassed>>

\* The host runs the scheduled effect: callback(state).
EffectArg(st) == Obj(st)

RunEffect ==
    /\ subscribed
    /\ pending # "idle"
    /\ pending' = "idle"
    /\ last' = Did("callback", pending, EffectArg(state), TRUE, FALSE)
    /\ UNCHANGED <<fixed, heap, state, inst, held, snap, snapAt, subscribed, nops, bypassed>>

Next ==
    \/ \E name \in WriteNames, spec \in ValueSpecs : Set(name, spec)
    \/ \E partial \in Partials : Update(partial)
    \/ Reset
    \/ Current
    \/ Snapshot
    \/ \E name \in HeldKeys, spec \in ValueSpecs : WriteHeld(name, spec)
    \/ \E via \in {"facade", "held"}, field \in FieldNames, n \in WrittenPrims :
          SetNested(via, field, n)
    \/ IncrementCounter
    \/ Subscribe
    \/ RunEffect

Spec == Init /\ [][Next]_vars

\* The host's scheduler always runs a scheduled effect.
LiveSpec == Spec /\ WF_vars(RunEffect)

\* ---- observations -------------------------------------------------------
\* The backing record, and its contents with nested objects expanded.
Record == heap[state]

View == DeepView(heap, Record)

\* The fields of the record that the constructor's argument had, in the
\* argument's order.
InitialFieldsOf(h, c) ==
    [i \in 1..Len(initView) |->
        IF HasOwn(c, initView[i].key)
          THEN DeepView(h, <<Entry(initView[i].key, OwnVal(c, initView[i].key))>>)[1]
          ELSE [key |-> initView[i].key, val |-> Undef, sub |-> <<>>]]

Proxied == impl \in {"A", "B"}

\* ---- C1 -----------------------------------------------------------------
\* C1: in reactiveState (part_000, part_001) a write to a reserved operation
\* name is reported as failed, changes neither the backing record nor any
\* other object, and afterwards the name is still present and still
\* resolves to the operation it resolved to before.
C1_ReservedWriteRejected ==
    [][\A r \in OpNames :
          (Proxied /\ r \in Reserved /\ last'.op = "set" /\ last'.key = r)
            => /\ ~last'.ok
               /\ state' = state
               /\ heap' = heap
               /\ Has(r)'
               /\ Get(r) = OpVal(r)
               /\ Get(r)' = Get(r)]_vars

\* A rejected write to `update` after the record has been modified.
C1_Witness ==
    /\ impl = "B"
    /\ last.op = "set" /\ last.key = "update" /\ ~last.ok
    /\ nops = MaxOps
    /\ View # initView

\* ---- C2 -----------------------------------------------------------------
\* C2: when only facade writes, update() and reset() have modified the
\* record, reset() leaves every field of the constructor's argument at its
\* construction-time value, and a reset() directly after a reset() leaves
\* the same field values as the first.
C2_ResetRestoresInitial ==
    [][(last'.op = "reset" /\ ~bypassed')
          => /\ InitialFieldsOf(heap', heap'[state']) = initView
             /\ (last.op = "reset" => View' = View)]_vars

\* reset() after a write that changed `counter`: the reference taken before
\* the reset still shows the written value, the record shows the initial one.
C2_Witness ==
    /\ impl = "B"
    /\ last.op = "reset" /\ ~bypassed
    /\ held # 0 /\ ReadProp(heap[held], "counter") = Prim(MaxVal)
    /\ ReadProp(Record, "counter") = Prim(0)

\* ---- C3 -----------------------------------------------------------------
\* The value v read back is the caller's value spec.
Stored(h, v, spec) ==
    IF spec.k = "newobj"
      THEN v.k = "obj" /\ h[v.n] = <<Entry(NestedKey, Prim(spec.n))>>
      ELSE v = Prim(spec.n)

\* The field `name` of record c, nested object expanded.
FieldView(h, c, name) ==
    IF HasOwn(c, name) THEN DeepView(h, <<Entry(name, OwnVal(c, name))>>)
    ELSE <<>>

\* C3: after update(partial) every key of partial that is not a reserved
\* name reads back through the facade as the value given, every field whose
\* key is not in partial keeps its value, and update({}) changes nothing.
C3_UpdateMerges ==
    [][\A partial \in Partials :
          Update(partial)
            => /\ \A i \in 1..Len(partial) :
                    partial[i].key \notin Reserved
                      => Stored(heap', Get(partial[i].key)', partial[i].val)
               /\ \A name \in FieldNames \ KeySet(partial) :
                    FieldView(heap', heap'[state'], name)
                      = FieldView(heap, heap[state], name)
               /\ (partial = <<>> => View' = View)]_vars

\* ---- C4 -----------------------------------------------------------------
\* C4: a write set(k, v) to a name k that is not a reserved operation name
\* is reported as successful, get(k) then returns v, and every other field
\* of the backing record keeps its value.
C4_WriteStores ==
    [][\A k \in FieldNames :
          (last'.op = "set" /\ last'.key = k /\ k \notin Reserved)
            => /\ last'.ok
               /\ Get(k)' = last'.val
               /\ \A name \in FieldNames \ {k} :
                    FieldView(heap', heap'[state'], name)
                      = FieldView(heap, heap[state], name)]_vars

Reassigned(l) == impl = "B" /\ l.op \in {"set", "update", "reset"} /\ l.ok

\* FrontEndStateService forwards a write to _state only for the keys that
\* createAccessors found at construction.
Forwarded(k) == impl = "C" => k \in accessors

C6_SnapshotFrozen == snap # 0 => DeepView(heap, heap[snap]) = snapAt

\* A nested object of the record written after the snapshot was taken.
C6_Witness ==
    /\ snap # 0
    /\ last.op = "setNested"
    /\ View # snapAt

\* ---- C7 -----------------------------------------------------------------
\* C7: a reserved operation name that is also a field of the backing record
\* reads through the facade as the operation, and is present.
C7_OperationWins ==
    \A r \in Reserved : HasOwn(Record, r) => (Get(r) = OpVal(r) /\ Has(r))

\* ---- C8 -----------------------------------------------------------------
OwnKeys == IF impl = "A" THEN OwnKeysA(heap, state) ELSE OwnKeysB(heap, state)

NoDuplicates(q) == \A i, j \in 1..Len(q) : i # j => q[i] # q[j]

\* C8: the keys of reactiveState's facade are the reserved operation names
\* in declaration order followed by the record's keys in their order, every
\* name exactly once.
C8_KeysOnce ==
    Proxied
      => /\ NoDuplicates(OwnKeys)
         /\ SeqSet(OwnKeys) = Reserved \cup KeySet(Record)
         /\ OwnKeys = (IF impl = "A" THEN ApiA ELSE ApiB) \o Keys(Record)

\* ---- C9 -----------------------------------------------------------------
\* C9: every rejected write emits a warning and reports failure.
C9_RejectionWarns == (last.op = "set" /\ ~last.ok) => last.warn

\* ---- C10 ----------------------------------------------------------------
\* C10: subscribe returns the backing record; once subscribed, every
\* replacement of the backing record schedules the effect, and a scheduled
\* effect is eventually run, calling back with the backing record as it
\* then is.
C10_SubscribeNotifies ==
    /\ [](last.op = "subscribe" => last.val = Obj(state))
    /\ [][(subscribed /\ state' # state) => pending' = "change"]_vars
    /\ (pending # "idle")
         ~> (pending = "idle" /\ last.op = "callback" /\ last.val = Obj(state))

\* The callback ran because the record changed, after two operations.
C10_Witness ==
    /\ last.op = "callback" /\ last.key = "change"
    /\ nops = MaxOps
    /\ View # initView

\* ---- C11 ----------------------------------------------------------------
\* The object reset() copies from: startValue in part_000, the constructor's
\* argument in part_001.
Baseline == IF impl = "A" THEN startValue ELSE initial

\* The record a reset() called now would install.
ResetNow ==
    IF impl = "A" THEN ResetA(heap, state, startValue)
    ELSE ResetB(heap, initial, writeThrough)

\* The initial fields a reset() called now would leave in the record.
Restored ==
    CHOOSE v \in {InitialFieldsOf(r.h, r.h[r.st]) : r \in {ResetNow}} : TRUE

\* The objects held by the fields of record c that reset() assigns.
Placed(c) ==
    {v.n : v \in {w \in {ReadProp(c, initView[i].key) : i \in 1..Len(initView)} :
                     w.k = "obj"}}

\* C11: in reactiveState the reset baseline keeps its construction-time
\* contents; every nested object that reset() places in the record is newly
\* created (it is neither an object of the baseline nor one placed by an
\* earlier reset()); and a write to a nested object reached through
\* `current` or the facade leaves what reset() restores unchanged.
C11_BaselineUntouched ==
    /\ [](Proxied => DeepView(heap, heap[Baseline]) = initView)
    /\ [][(Proxied /\ last'.op = "reset")
            => \A id \in Placed(heap'[state']) :
                  id > Len(heap) \/ heap[id] = Free]_vars
    /\ [][(Proxied /\ last'.op = "setNested") => Restored' = Restored]_vars

\* ---- C12 ----------------------------------------------------------------
\* The keys of the constructor's argument.
InitKeys == {initView[i].key : i \in 1..Len(initView)}

\* The fields of the record that were added after construction.
Added(c) == (KeySet(c) \cap FieldNames) \ (InitKeys \cup Reserved)

====
